---- MODULE Spec2Model ----
(***************************************************************************)
(* A model of pbackus/hash (src/hash.c): a string-keyed, int-valued        *)
(* separate-chaining hash table that grows and shrinks by rehashing into a *)
(* fresh table.                                                            *)
(*                                                                         *)
(* The heap is explicit.  A table or an entry is a block with an address;  *)
(* a freed block is marked not live, and freeing a block that is not live  *)
(* sets double_free.  An entry block stands for the entry struct together  *)
(* with the key copy it owns (the two are always freed together, lines     *)
(* 87-88 and 339-340).  A chain is the sequence of entry addresses reached *)
(* from the bucket head through the next pointers.                         *)
(*                                                                         *)
(* Every public function is one action; the outcomes of the allocations it *)
(* makes are its nondeterministic inputs.                                  *)
(***************************************************************************)
EXTENDS Integers, Sequences, FiniteSets, TLC

VARIABLES
    tables,       \* heap of struct hash_table blocks, by address
    entries,      \* heap of struct hash_entry blocks, by address
    double_free,  \* some block was freed while not live
    h,            \* the caller's handle (Hash *h of the tests), NULL if none
    aborted,      \* abort() was called: the process is gone
    amap,         \* the abstract key-to-value map driven by the same calls
    last          \* what the most recent call did

vars == <<tables, entries, double_free, h, aborted, amap, last>>

-----------------------------------------------------------------------------
(* Program constants *)

MIN_BUCKET_COUNT == 32

\* load_factor is a double.  Every value it takes is a multiple of
\* 1/bucket_count with bucket_count a power of two, which a double holds
\* exactly; the model keeps it as an integer count of 1/LoadFactorScale.
LoadFactorScale == 1024

GROW_THRESHOLD == (3 * LoadFactorScale) \div 2

SHRINK_THRESHOLD == GROW_THRESHOLD \div 4

NULL == 0

-----------------------------------------------------------------------------
(* Bounds *)

\* Keys the caller pushes and pops in order (the loop of test_grow).
NumBallast == 48

\* Keys the caller sets, overwrites and removes at any time.
NumFree == 2

\* Values the caller stores under a free key.
NumValues == 2

\* Addresses malloc can return for a table.
NumTableSlots == 2

\* Context values the caller hands to hash_iterate.
NumContexts == 2

\* Re-insertions of one resize at which an allocation failure is tried.
NumFailPoints == 3

\* Keys the caller looks up with hash_get.
NumGetKeys == 1

\* Keys the caller of the long runs pushes and pops in order: enough to
\* take a table from 64 to 128 buckets.
NumLong == 97

NumKeys == NumBallast + NumFree

\* Entry blocks set aside for each table: one for each key of any run.
NumHeapKeys == IF NumLong > NumKeys THEN NumLong ELSE NumKeys

\* A resize holds the old entries and their copies at once.
MaxEntries == NumTableSlots * NumHeapKeys

TableIds == 1..NumTableSlots

EntryIds == 1..MaxEntries

-----------------------------------------------------------------------------
(* Keys: the decimal strings the tests use, as sequences of character codes *)

KeyStr(n) ==
    IF n < 10 THEN <<48 + n>> ELSE <<48 + (n \div 10), 48 + (n % 10)>>

Keys == {KeyStr(n) : n \in 0..(NumKeys - 1)}

\* The number a key spells.
KeyIndex(key) ==
    IF Len(key) = 1 THEN key[1] - 48 ELSE (key[1] - 48) * 10 + (key[2] - 48)

BallastKeys == [n \in 0..(NumBallast - 1) |-> KeyStr(n)]

BallastKey(n) == BallastKeys[n]

FreeKeys == {KeyStr(n) : n \in NumBallast..(NumKeys - 1)}

LongKeys == [n \in 0..(NumLong - 1) |-> KeyStr(n)]

LongKey(n) == LongKeys[n]

Values == 1..NumValues

Absent == -1

\* strcmp(a, b) != 0
strcmp(a, b) == IF a = b THEN 0 ELSE 1

-----------------------------------------------------------------------------
(* djb2.  For keys of at most two characters the digest stays below 2^23,  *)
(* so no width of unsigned long wraps.                                     *)

RECURSIVE djb2(_, _)
djb2(acc, key) ==
    IF key = <<>> THEN acc
    ELSE djb2(((acc * 32) + acc) + Head(key), Tail(key))

hash(key) == djb2(5381, key)

-----------------------------------------------------------------------------
(* Heap blocks *)

FreeTable ==
    [live |-> FALSE, load_factor |-> 0, bucket_count |-> 0,
     buckets |-> [i \in {} |-> <<>>]]

FreeEntry == [live |-> FALSE, key |-> <<>>, value |-> 0]

LiveTableIds(m) == {t \in TableIds : m.tables[t].live}

LiveEntryIds(m) == {e \in EntryIds : m.entries[e].live}

\* free(p) of a table block
free_table(m, t) ==
    IF m.tables[t].live
    THEN [m EXCEPT !.tables[t] = FreeTable]
    ELSE [m EXCEPT !.double_free = TRUE]

\* free(entry->key); free(entry)
free_entry(m, e) ==
    IF m.entries[e].live
    THEN [m EXCEPT !.entries[e] = FreeEntry]
    ELSE [m EXCEPT !.double_free = TRUE]

-----------------------------------------------------------------------------
(* make_hash, hash_delete *)

make_hash_keeps_load_factor(m, addr, bucket_count) ==
    IF addr = NULL THEN [m |-> m, ret |-> NULL]
    ELSE [m |-> [m EXCEPT !.tables[addr] =
                    [live |-> TRUE, load_factor |-> LoadFactorScale,
                     bucket_count |-> bucket_count,
                     buckets |-> [i \in 0..(bucket_count - 1) |-> <<>>]]],
          ret |-> addr]

make_hash(m, addr, bucket_count) ==
    IF addr = NULL THEN [m |-> m, ret |-> NULL]
    ELSE [m |-> [m EXCEPT !.tables[addr] =
                    [live |-> TRUE, load_factor |-> 0,
                     bucket_count |-> bucket_count,
                     buckets |-> [i \in 0..(bucket_count - 1) |-> <<>>]]],
          ret |-> addr]

RECURSIVE delete_bucket(_, _)
delete_bucket(m, chain) ==
    IF chain = <<>> THEN m
    ELSE delete_bucket(free_entry(m, Head(chain)), Tail(chain))

RECURSIVE DeleteBuckets(_, _, _)
DeleteBuckets(m, self, i) ==
    IF i >= m.tables[self].bucket_count THEN m
    ELSE DeleteBuckets(delete_bucket(m, m.tables[self].buckets[i]), self, i + 1)

hash_delete(m, self) ==
    IF self = NULL THEN m
    ELSE free_table(DeleteBuckets(m, self, 0), self)

-----------------------------------------------------------------------------
(* make_entry, try_set *)

\* What the two mallocs of make_entry give: p is the address of the entry
\* struct (NULL: the first malloc failed), key_ok whether the key copy could
\* be allocated.
NoEntry == [p |-> NULL, key_ok |-> FALSE]

NoKey(p) == [p |-> p, key_ok |-> FALSE]

Allocated(p) == [p |-> p, key_ok |-> TRUE]

RECURSIVE LowestFree(_, _)
LowestFree(m, e) ==
    IF e > MaxEntries THEN NULL
    ELSE IF ~m.entries[e].live THEN e
    ELSE LowestFree(m, e + 1)

\* The address malloc returns for the entry of key made for table self.
\* Addresses carry no meaning beyond identity, so malloc's choice among the
\* free addresses is fixed: the address set aside for (self, key) when it is
\* free, the lowest free address otherwise (NULL when none is free).
Malloc(m, self, key) ==
    IF ~m.entries[(self - 1) * NumHeapKeys + KeyIndex(key) + 1].live
    THEN (self - 1) * NumHeapKeys + KeyIndex(key) + 1
    ELSE LowestFree(m, 1)

\* The outcomes of the allocations of one make_entry call.
AllocOutcomes(m, self, key) ==
    {NoEntry, NoKey(Malloc(m, self, key)), Allocated(Malloc(m, self, key))}

make_entry_ignores_key_failure(m, key, value, alloc) ==
    IF alloc.p = NULL THEN [m |-> m, ret |-> NULL]
    ELSE [m |-> [m EXCEPT !.entries[alloc.p] =
                    [live |-> TRUE, key |-> key, value |-> value]],
          ret |-> alloc.p]

make_entry(m, key, value, alloc) ==
    IF alloc.p = NULL THEN [m |-> m, ret |-> NULL]
    ELSE IF ~alloc.key_ok THEN [m |-> m, ret |-> NULL]
    ELSE [m |-> [m EXCEPT !.entries[alloc.p] =
                    [live |-> TRUE, key |-> key, value |-> value]],
          ret |-> alloc.p]

bucket_index_of_new_table(m, self, key) == hash(key) % MIN_BUCKET_COUNT

bucket_index(m, self, key) == hash(key) % m.tables[self].bucket_count

\* The search loop: the position in the chain of the first entry whose key
\* is key, 0 when the loop ends at NULL.
RECURSIVE SearchFrom(_, _, _, _)
SearchFrom(m, chain, key, pos) ==
    IF pos > Len(chain) THEN 0
    ELSE IF strcmp(key, m.entries[chain[pos]].key) = 0 THEN pos
    ELSE SearchFrom(m, chain, key, pos + 1)

find_entry(m, chain, key) == SearchFrom(m, chain, key, 1)

\* entry->next = self->buckets[i]; self->buckets[i] = entry;
\* self->load_factor += 1.0 / self->bucket_count;
link_entry(e, self, i) ==
    IF e.ret = NULL THEN [m |-> e.m, ret |-> 0]
    ELSE [m |-> [e.m EXCEPT
                    !.tables[self].buckets[i] = <<e.ret>> \o @,
                    !.tables[self].load_factor =
                        @ + (LoadFactorScale \div e.m.tables[self].bucket_count)],
          ret |-> 1]

try_set_without_search(m, self, key, value, alloc) ==
    link_entry(make_entry(m, key, value, alloc), self, bucket_index(m, self, key))

try_set(m, self, key, value, alloc) ==
    LET i == bucket_index(m, self, key)
        chain == m.tables[self].buckets[i]
        pos == find_entry(m, chain, key)
    IN  IF pos # 0
        THEN [m |-> [m EXCEPT !.entries[chain[pos]].value = value], ret |-> 1]
        ELSE link_entry(make_entry(m, key, value, alloc), self, i)

-----------------------------------------------------------------------------
(* hash_iterate: the entries in the order the two loops reach them; the    *)
(* callback is then applied to each in turn.                               *)

walk_chain_head_only(chain) ==
    IF chain = <<>> THEN <<>> ELSE <<Head(chain)>>

\* for (e = self->buckets[i]; e; e = e->next)
walk_chain(chain) == chain

RECURSIVE IterateFrom(_, _, _)
IterateFrom(m, self, i) ==
    IF i >= m.tables[self].bucket_count THEN <<>>
    ELSE walk_chain(m.tables[self].buckets[i]) \o IterateFrom(m, self, i + 1)

hash_iterate(m, self) == IterateFrom(m, self, 0)

\* write_pair of the tests: the visitor appends what it was handed.
write_pair(k, v, ctx, buf) ==
    Append(buf, [key |-> k, value |-> v, context |-> ctx])

RECURSIVE VisitEach(_, _, _, _)
VisitEach(m, order, ctx, buf) ==
    IF order = <<>> THEN buf
    ELSE VisitEach(m, Tail(order), ctx,
                   write_pair(m.entries[Head(order)].key,
                              m.entries[Head(order)].value, ctx, buf))

-----------------------------------------------------------------------------
(* resize_callback, try_resize.  st is the heap together with the          *)
(* struct resize_ctx the callback works on.                                *)

\* *success = *success && try_set(new_self, k, v)
record_result(r, ctx) == [m |-> r.m, ctx |-> [ctx EXCEPT !.success = r.ret]]

resize_callback(st, k, v, alloc) ==
    IF st.ctx.success = 0 THEN st
    ELSE record_result(try_set(st.m, st.ctx.new_self, k, v, alloc), st.ctx)

\* hash_iterate(self, resize_callback, &result).  fail names the callback
\* invocation whose entry allocation fails (at = 0: none does).  Once
\* success is cleared the callback returns before it looks at its
\* arguments, so the walk goes on without reading the entry.
ResizeAlloc(m, new_self, key, failed, kind) ==
    IF ~failed THEN Allocated(Malloc(m, new_self, key))
    ELSE IF kind = "no_key" THEN NoKey(Malloc(m, new_self, key))
    ELSE NoEntry

RECURSIVE ResizeEach(_, _, _, _)
ResizeEach(st, order, n, fail) ==
    IF n > Len(order) THEN st
    ELSE IF st.ctx.success = 0
    THEN ResizeEach(resize_callback(st, <<>>, 0, NoEntry), order, n + 1, fail)
    ELSE ResizeEach(resize_callback(st, st.m.entries[order[n]].key,
                                    st.m.entries[order[n]].value,
                                    ResizeAlloc(st.m, st.ctx.new_self,
                                                st.m.entries[order[n]].key,
                                                n = fail.at, fail.kind)),
                    order, n + 1, fail)

EntryCount(m, self) == Len(IterateFrom(m, self, 0))

\* built describes the new table as the iteration left it: its bucket
\* count and whether it held none, some or all of the entries of self.
Built(m, self, new_self) ==
    [bucket_count |-> m.tables[new_self].bucket_count,
     copied |-> IF EntryCount(m, new_self) = 0 THEN "none"
                ELSE IF EntryCount(m, new_self) < EntryCount(m, self) THEN "some"
                ELSE "all"]

NotBuilt == [bucket_count |-> 0, copied |-> "none"]

resize_result_ignores_failure(st, self) ==
    [m |-> st.m, ret |-> st.ctx.new_self,
     built |-> Built(st.m, self, st.ctx.new_self)]

\* if (!result.success) { hash_delete(result.new_self); return NULL; }
\* return result.new_self;
resize_result(st, self) ==
    IF st.ctx.success = 0
    THEN [m |-> hash_delete(st.m, st.ctx.new_self), ret |-> NULL,
          built |-> Built(st.m, self, st.ctx.new_self)]
    ELSE [m |-> st.m, ret |-> st.ctx.new_self,
          built |-> Built(st.m, self, st.ctx.new_self)]

\* mk is what make_hash(new_size) gave.
resize_into(mk, self, fail) ==
    IF mk.ret = NULL THEN [m |-> mk.m, ret |-> NULL, built |-> NotBuilt]
    ELSE resize_result(
            ResizeEach([m |-> mk.m, ctx |-> [success |-> 1, new_self |-> mk.ret]],
                       hash_iterate(mk.m, self), 1, fail), self)

try_resize(m, self, new_size, addr, fail) ==
    resize_into(make_hash(m, addr, new_size), self, fail)

\* The address malloc returns for a table: the lowest free one (NULL when
\* none is free).  As for entries, the choice among free addresses is fixed.
RECURSIVE LowestFreeTable(_, _)
LowestFreeTable(m, t) ==
    IF t > NumTableSlots THEN NULL
    ELSE IF ~m.tables[t].live THEN t
    ELSE LowestFreeTable(m, t + 1)

MallocTable(m) == LowestFreeTable(m, 1)

\* The re-insertions of a resize of n entries at which the allocation is made
\* to fail: NumFailPoints of them spread from the first to the last.
FailPoints(n) ==
    IF n = 0 THEN {}
    ELSE {1 + ((j * (n - 1)) \div (NumFailPoints - 1)) :
            j \in 0..(NumFailPoints - 1)}

\* The allocation outcomes a resize of self can meet: the new table's address
\* (NULL: malloc failed) and the failing re-insertion, if any.  NoResize
\* stands where no resize is attempted.
NoResize == [addr |-> NULL, at |-> 0, kind |-> "none"]

ResizeChoices(m, self) ==
    {[addr |-> NULL, at |-> 0, kind |-> "no_table"],
     [addr |-> MallocTable(m), at |-> 0, kind |-> "ok"]}
    \cup {[addr |-> MallocTable(m), at |-> n, kind |-> k] :
            n \in FailPoints(EntryCount(m, self)),
            k \in {"no_entry", "no_key"}}

-----------------------------------------------------------------------------
(* hash_set, hash_get, hash_remove *)

grow_size_quadruples(bucket_count) == bucket_count * 4

grow_size(bucket_count) == bucket_count * 2

shrink_size_keeps(bucket_count) == bucket_count

shrink_size(bucket_count) == bucket_count \div 2

must_grow_when_crossing(t) ==
    /\ t.load_factor > GROW_THRESHOLD
    /\ t.load_factor <= GROW_THRESHOLD + (LoadFactorScale \div t.bucket_count)

must_grow_late(t) == t.load_factor > 2 * GROW_THRESHOLD

must_grow_at_threshold(t) == t.load_factor >= GROW_THRESHOLD

must_grow(t) == t.load_factor > GROW_THRESHOLD

must_shrink_without_floor(t) == t.load_factor < SHRINK_THRESHOLD

must_shrink(t) ==
    t.load_factor < SHRINK_THRESHOLD /\ t.bucket_count > MIN_BUCKET_COUNT

\* What a call hands back: the heap, the caller's handle, whether the
\* process was aborted, and what the resize attempt (if any) came to.
Returned(m, self, ab) ==
    [m |-> m, selfp |-> self, aborted |-> ab, resize |-> "none",
     new_size |-> 0, built |-> NotBuilt]

adopt_keeps_old(r, self, new_size) ==
    IF r.ret = NULL
    THEN [m |-> r.m, selfp |-> self, aborted |-> FALSE,
          resize |-> "deferred",
          new_size |-> new_size, built |-> r.built]
    ELSE [m |-> r.m, selfp |-> r.ret, aborted |-> FALSE,
          resize |-> "done", new_size |-> new_size, built |-> r.built]

\* if (!new_self) return;  *selfp = new_self;  hash_delete(self);
adopt(r, self, new_size) ==
    IF r.ret = NULL
    THEN [m |-> r.m, selfp |-> self, aborted |-> FALSE,
          resize |-> "deferred",
          new_size |-> new_size, built |-> r.built]
    ELSE [m |-> hash_delete(r.m, self), selfp |-> r.ret, aborted |-> FALSE,
          resize |-> "done", new_size |-> new_size, built |-> r.built]

Rehash(m, self, new_size, rc) ==
    adopt(try_resize(m, self, new_size, rc.addr, rc), self, new_size)

grow_again(r, rc) ==
    IF r.resize = "done" /\ must_grow(r.m.tables[r.selfp])
    THEN Rehash(r.m, r.selfp, grow_size(r.m.tables[r.selfp].bucket_count),
                [rc EXCEPT !.addr = MallocTable(r.m)])
    ELSE r

grow_while_necessary(s, self, rc) ==
    IF s.ret = 0 THEN Returned(s.m, self, TRUE)
    ELSE IF must_grow(s.m.tables[self])
    THEN grow_again(Rehash(s.m, self,
                           grow_size(s.m.tables[self].bucket_count), rc), rc)
    ELSE Returned(s.m, self, FALSE)

\* s is what try_set gave.
grow_if_necessary(s, self, rc) ==
    IF s.ret = 0 THEN Returned(s.m, self, TRUE)
    ELSE IF must_grow(s.m.tables[self])
    THEN Rehash(s.m, self, grow_size(s.m.tables[self].bucket_count), rc)
    ELSE Returned(s.m, self, FALSE)

hash_set(m, selfp, key, value, alloc, rc) ==
    grow_if_necessary(try_set(m, selfp, key, value, alloc), selfp, rc)

NoSlot == -2

hash_get(m, self, key, value_out) ==
    LET i == bucket_index(m, self, key)
        chain == m.tables[self].buckets[i]
        pos == find_entry(m, chain, key)
    IN  IF pos # 0
        THEN [ret |-> 1,
              value_out |-> IF value_out # NoSlot
                            THEN m.entries[chain[pos]].value ELSE value_out]
        ELSE [ret |-> 0, value_out |-> value_out]

unlink_drops_rest(chain, pos) == SubSeq(chain, 1, pos - 1)

\* *entryp = entry->next
unlink(chain, pos) ==
    SubSeq(chain, 1, pos - 1) \o SubSeq(chain, pos + 1, Len(chain))

\* free(entry->key); free(entry); self->load_factor -= 1.0 / self->bucket_count;
drop_entry_keeps_load_factor(m, self, e) == free_entry(m, e)

drop_entry(m, self, e) ==
    [free_entry(m, e) EXCEPT !.tables[self].load_factor =
        @ - (LoadFactorScale \div m.tables[self].bucket_count)]

\* The search of hash_remove and the block under if (*entryp).
remove_if_found(m, self, key) ==
    LET i == bucket_index(m, self, key)
        chain == m.tables[self].buckets[i]
        pos == find_entry(m, chain, key)
    IN  IF pos # 0
        THEN drop_entry([m EXCEPT !.tables[self].buckets[i] = unlink(chain, pos)],
                        self, chain[pos])
        ELSE m

shrink_if_necessary(m, self, rc) ==
    IF must_shrink(m.tables[self])
    THEN Rehash(m, self, shrink_size(m.tables[self].bucket_count), rc)
    ELSE Returned(m, self, FALSE)

hash_remove(m, selfp, key, rc) ==
    shrink_if_necessary(remove_if_found(m, selfp, key), selfp, rc)

-----------------------------------------------------------------------------
(* The caller *)

Mem == [tables |-> tables, entries |-> entries, double_free |-> double_free]

Level == Cardinality({n \in 0..(NumBallast - 1) : amap[BallastKey(n)] # Absent})

BallastValue(n) == n

SetArgs ==
    (FreeKeys \X Values)
    \cup (IF Level < NumBallast
          THEN {<<BallastKey(Level), BallastValue(Level)>>} ELSE {})

RemoveArgs ==
    FreeKeys \cup (IF Level > 0 THEN {BallastKey(Level - 1)} ELSE {})

Found(k) == hash_get(Mem, h, k, NoSlot).ret = 1

NoCall ==
    [op |-> "none", self |-> NULL, key |-> <<>>, found |-> FALSE,
     alloc |-> "none", fault |-> "none", resize |-> "none", got |-> <<>>,
     new_size |-> 0, built |-> NotBuilt, context |-> 0, calls |-> <<>>]

Init ==
    /\ tables = [t \in TableIds |-> FreeTable]
    /\ entries = [e \in EntryIds |-> FreeEntry]
    /\ double_free = FALSE
    /\ h = NULL
    /\ aborted = FALSE
    /\ amap = [k \in Keys |-> Absent]
    /\ last = NoCall

SetMem(m) ==
    /\ tables' = m.tables
    /\ entries' = m.entries
    /\ double_free' = m.double_free

\* Hash *h = hash_new();
hash_new(m, addr) == make_hash(m, addr, MIN_BUCKET_COUNT)

NewReturns(r) ==
    /\ SetMem(r.m)
    /\ h' = r.ret
    /\ last' = [NoCall EXCEPT !.op = "new"]
    /\ UNCHANGED <<aborted, amap>>

HashNew ==
    /\ ~aborted /\ h = NULL
    /\ \E addr \in {MallocTable(Mem), NULL} : NewReturns(hash_new(Mem, addr))

\* hash_delete(h); the caller drops the handle.
HashDelete ==
    /\ ~aborted /\ h # NULL
    /\ SetMem(hash_delete(Mem, h))
    /\ h' = NULL
    /\ amap' = [k \in DOMAIN amap |-> Absent]
    /\ last' = [NoCall EXCEPT !.op = "delete"]
    /\ UNCHANGED aborted

\* The call returns (or aborts) with r.
CallReturns(r, op, key, found, alloc, rc, newmap) ==
    /\ SetMem(r.m)
    /\ h' = r.selfp
    /\ aborted' = r.aborted
    /\ amap' = IF r.aborted THEN amap ELSE newmap
    /\ last' = [op |-> op, self |-> h, key |-> key, found |-> found,
                alloc |-> alloc, fault |-> rc.kind, resize |-> r.resize, new_size |-> r.new_size,
                built |-> r.built, context |-> 0, calls |-> <<>>,
                got |-> <<>>]

\* make_entry is reached only when the search fails.
TopAllocs(k) ==
    IF Found(k) THEN {Allocated(Malloc(Mem, h, k))}
    ELSE AllocOutcomes(Mem, h, k)

AllocKind(alloc) ==
    IF alloc.p = NULL THEN "no_entry"
    ELSE IF ~alloc.key_ok THEN "no_key" ELSE "ok"

GrowChoices(s) ==
    IF s.ret = 1 /\ must_grow(s.m.tables[h])
    THEN ResizeChoices(s.m, h) ELSE {NoResize}

\* hash_set(&h, key, value);
HashSet ==
    /\ ~aborted /\ h # NULL
    /\ \E a \in SetArgs :
         \E alloc \in TopAllocs(a[1]) :
           \E rc \in GrowChoices(try_set(Mem, h, a[1], a[2], alloc)) :
             CallReturns(hash_set(Mem, h, a[1], a[2], alloc, rc),
                         "set", a[1], Found(a[1]), AllocKind(alloc), rc,
                         [amap EXCEPT ![a[1]] = a[2]])

ShrinkChoices(m) ==
    IF must_shrink(m.tables[h]) THEN ResizeChoices(m, h) ELSE {NoResize}

\* hash_remove(&h, key);
HashRemove ==
    /\ ~aborted /\ h # NULL
    /\ \E k \in RemoveArgs :
         \E rc \in ShrinkChoices(remove_if_found(Mem, h, k)) :
           CallReturns(hash_remove(Mem, h, k, rc), "remove", k, Found(k), "none", rc,
                       [amap EXCEPT ![k] = Absent])

Contexts == 1..NumContexts

\* hash_iterate(h, write_pair, &bufp);
HashIterate ==
    /\ ~aborted /\ h # NULL
    /\ \E ctx \in Contexts :
         last' = [NoCall EXCEPT !.op = "iterate", !.context = ctx,
                    !.calls = VisitEach(Mem, hash_iterate(Mem, h), ctx, <<>>)]
    /\ UNCHANGED <<tables, entries, double_free, h, aborted, amap>>

\* hash_set(&h, key, value) with every answer the allocator could give,
\* whether or not try_set comes to ask for it.
HashSetAnyAnswer ==
    /\ ~aborted /\ h # NULL
    /\ \E a \in SetArgs :
         \E alloc \in AllocOutcomes(Mem, h, a[1]) :
           \E rc \in GrowChoices(try_set(Mem, h, a[1], a[2], alloc)) :
             CallReturns(hash_set(Mem, h, a[1], a[2], alloc, rc),
                         "set", a[1], Found(a[1]), AllocKind(alloc), rc,
                         [amap EXCEPT ![a[1]] = a[2]])

\* Keys the caller looks up.
GetKeys == {KeyStr(n) : n \in NumBallast..(NumBallast + NumGetKeys - 1)}

\* int *value_out: NULL, or the address of an int holding Absent.
GetSlots == {NoSlot, Absent}

with_out(r, out) == [m |-> r.m, selfp |-> r.selfp, out |-> out]

hash_get_rehashing(m, self, key, value_out) ==
    with_out(IF must_grow(m.tables[self])
             THEN Rehash(m, self, grow_size(m.tables[self].bucket_count),
                         [addr |-> MallocTable(m), at |-> 0, kind |-> "ok"])
             ELSE Returned(m, self, FALSE),
             hash_get(m, self, key, value_out))

\* hash_get(h, key, value_out) as the caller sees it: self is passed by
\* value and points to const, and the body stores to *value_out alone.
hash_get_call(m, self, key, value_out) ==
    [m |-> m, selfp |-> self, out |-> hash_get(m, self, key, value_out)]

GetReturns(r, key, value_out) ==
    /\ SetMem(r.m)
    /\ h' = r.selfp
    /\ last' = [NoCall EXCEPT !.op = "get", !.self = h, !.key = key,
                              !.got = <<r.out.ret, value_out,
                                        r.out.value_out>>]
    /\ UNCHANGED <<aborted, amap>>

\* hash_get(h, key, value_out);
HashGet ==
    /\ ~aborted /\ h # NULL
    /\ \E k \in GetKeys :
         \E value_out \in GetSlots :
           GetReturns(hash_get_call(Mem, h, k, value_out), k, value_out)

NextGet == HashNew \/ HashDelete \/ HashSet \/ HashRemove \/ HashGet

SpecGet == Init /\ [][NextGet]_vars

-----------------------------------------------------------------------------
(* Long runs: the caller of test_grow and test_shrink, NumLong keys deep.  *)
(* It sets the keys "0", "1", ... in order, each to its number, removes    *)
(* them in the reverse order, sets the last key it set once more, and      *)
(* removes the key it would set next, which is not there.                  *)

LongInit ==
    /\ tables = [t \in TableIds |-> FreeTable]
    /\ entries = [e \in EntryIds |-> FreeEntry]
    /\ double_free = FALSE
    /\ h = NULL
    /\ aborted = FALSE
    /\ amap = [k \in {LongKey(n) : n \in 0..(NumLong - 1)} |-> Absent]
    /\ last = NoCall

LongLevel ==
    Cardinality({n \in 0..(NumLong - 1) : amap[LongKey(n)] # Absent})

LongSetArgs ==
    (IF LongLevel < NumLong
     THEN {<<LongKey(LongLevel), BallastValue(LongLevel)>>} ELSE {})
    \cup (IF LongLevel > 0
          THEN {<<LongKey(LongLevel - 1), BallastValue(LongLevel - 1)>>}
          ELSE {})

LongRemoveArgs ==
    (IF LongLevel > 0 THEN {LongKey(LongLevel - 1)} ELSE {})
    \cup (IF LongLevel < NumLong THEN {LongKey(LongLevel)} ELSE {})

\* Every allocation succeeds.
NoFailure(choices) == {rc \in choices : rc.kind \in {"none", "ok"}}

\* The malloc of the new table may fail; the entry allocations succeed.
TableFailure(choices) == {rc \in choices : rc.at = 0}

LongSet(a, rc) ==
    CallReturns(hash_set(Mem, h, a[1], a[2],
                         Allocated(Malloc(Mem, h, a[1])), rc),
                "set", a[1], Found(a[1]), "ok", rc,
                [amap EXCEPT ![a[1]] = a[2]])

LongRemove(k, rc) ==
    CallReturns(hash_remove(Mem, h, k, rc), "remove", k, Found(k), "none",
                rc, [amap EXCEPT ![k] = Absent])

AfterSet(a) == try_set(Mem, h, a[1], a[2], Allocated(Malloc(Mem, h, a[1])))

HashNewNoFailure ==
    /\ ~aborted /\ h = NULL
    /\ NewReturns(hash_new(Mem, MallocTable(Mem)))

HashSetNoFailure ==
    /\ ~aborted /\ h # NULL
    /\ \E a \in LongSetArgs :
         \E rc \in NoFailure(GrowChoices(AfterSet(a))) : LongSet(a, rc)

HashRemoveNoFailure ==
    /\ ~aborted /\ h # NULL
    /\ \E k \in LongRemoveArgs :
         \E rc \in NoFailure(ShrinkChoices(remove_if_found(Mem, h, k))) :
           LongRemove(k, rc)

NextNoFailure ==
    HashNewNoFailure \/ HashDelete \/ HashSetNoFailure \/ HashRemoveNoFailure

SpecNoFailure == LongInit /\ [][NextNoFailure]_vars

HashSetLong ==
    /\ ~aborted /\ h # NULL
    /\ \E a \in LongSetArgs :
         \E rc \in TableFailure(GrowChoices(AfterSet(a))) : LongSet(a, rc)

HashRemoveLong ==
    /\ ~aborted /\ h # NULL
    /\ \E k \in LongRemoveArgs :
         \E rc \in TableFailure(ShrinkChoices(remove_if_found(Mem, h, k))) :
           LongRemove(k, rc)

NextLong == HashNew \/ HashDelete \/ HashSetLong \/ HashRemoveLong

SpecLong == LongInit /\ [][NextLong]_vars

NextAnyAnswer == HashNew \/ HashDelete \/ HashSetAnyAnswer \/ HashRemove

SpecAnyAnswer == Init /\ [][NextAnyAnswer]_vars

Next == HashNew \/ HashDelete \/ HashSet \/ HashRemove \/ HashIterate

Spec == Init /\ [][Next]_vars

-----------------------------------------------------------------------------
(* What the claims speak of *)

\* A call has returned and the caller holds a table.
Idle == h # NULL /\ ~aborted

\* hash_get(h, k, &value) with value holding Absent before the call.
Lookup(k) == hash_get(Mem, h, k, Absent)

\* What the abstract map says hash_get must give.
Expected(k) ==
    IF amap[k] = Absent THEN [ret |-> 0, value_out |-> Absent]
    ELSE [ret |-> 1, value_out |-> amap[k]]

\* The entries of the caller's table whose key is k.
\* The keys of a chain, head first.
ChainKeys(chain) == [j \in 1..Len(chain) |-> entries[chain[j]].key]

Shape == [i \in DOMAIN tables[h].buckets |-> ChainKeys(tables[h].buckets[i])]

Failed == last.fault \in {"no_table", "no_entry", "no_key"}

-----------------------------------------------------------------------------
(* C1: between calls, hash_get on the caller's handle returns 1 with value *)
(* v exactly when the abstract map driven by the same hash_set and         *)
(* hash_remove calls holds v for the key, and 0 otherwise.                 *)

C1_AgreesWithMap == Idle => \A k \in Keys : Lookup(k) = Expected(k)

\* A key was removed from a table that has grown, and other keys remain.
C1_Witness ==
    /\ Idle /\ last.op = "remove" /\ last.found
    /\ tables[h].bucket_count = 2 * MIN_BUCKET_COUNT
    /\ Lookup(last.key).ret = 0
    /\ \E k \in Keys : Lookup(k).ret = 1 /\ Lookup(k).value_out = amap[k]


-----------------------------------------------------------------------------
(* C2: when the resize attempt of a hash_set or hash_remove call fails     *)
(* (no new table, or a re-insertion failed), the call returns normally     *)
(* with the caller's handle and the bucket count unchanged, the set or     *)
(* remove itself is kept, every other key is retrievable with its value    *)
(* unchanged, and the new table is not adopted: the caller's table is the  *)
(* only live one.                                                          *)

C2_Kept(k) ==
    IF last.op = "set" THEN [ret |-> 1, value_out |-> amap[k]]
    ELSE [ret |-> 0, value_out |-> Absent]

C2_FailedResizeKeepsTable ==
    [][Failed' =>
        /\ ~aborted'
        /\ h' = h
        /\ tables'[h].bucket_count = tables[h].bucket_count
        /\ LiveTableIds(Mem)' = {h}
        /\ \A k \in Keys :
             Lookup(k)' = IF k = last'.key THEN C2_Kept(k)' ELSE Lookup(k)]_vars

\* A hash_set whose grow failed at a re-insertion after some were copied.
C2_Witness ==
    /\ Idle /\ last.op = "set" /\ ~last.found
    /\ last.fault = "no_key" /\ last.built.copied = "some"
    /\ Lookup(last.key).ret = 1

-----------------------------------------------------------------------------
(* C3: each key occurs in at most one entry of the caller's table, and     *)
(* after a hash_set of a key there is exactly one entry for it, holding    *)
(* the value just set.                                                     *)

C3_KeysOf(order) == {entries[order[j]].key : j \in 1..Len(order)}

C3_Holding(order, k) == {j \in 1..Len(order) : entries[order[j]].key = k}

C3_EachOnce(order) ==
    /\ Cardinality(C3_KeysOf(order)) = Len(order)
    /\ (~aborted /\ last.op = "set") =>
         /\ Cardinality(C3_Holding(order, last.key)) = 1
         /\ \A j \in C3_Holding(order, last.key) :
              entries[order[j]].value = amap[last.key]

C3_OneEntryPerKey == h # NULL => C3_EachOnce(hash_iterate(Mem, h))

\* An overwrite of a present key that also carried out a grow deferred by
\* an earlier call.
C3_Witness ==
    /\ Idle /\ last.op = "set" /\ last.found /\ last.resize = "done"
    /\ Cardinality(C3_Holding(hash_iterate(Mem, h), last.key)) = 1

-----------------------------------------------------------------------------
(* C4: a hash_set of a key that is already present changes neither the     *)
(* caller's handle, nor the bucket count, nor the load factor, nor the     *)
(* shape of any chain, in every reachable state.                           *)

C4_OverwriteChangesNoStructure ==
    [][(last'.op = "set" /\ last'.found) =>
        /\ h' = h
        /\ tables'[h'].bucket_count = tables[h].bucket_count
        /\ tables'[h'].load_factor = tables[h].load_factor
        /\ Shape' = Shape]_vars

-----------------------------------------------------------------------------
(* C5: a hash_remove of a key that is not present changes nothing: the     *)
(* handle, the bucket count, the load factor and every chain are as        *)
(* before, in every reachable state.                                       *)

C5_RemoveAbsentIsNoOp ==
    [][(last'.op = "remove" /\ ~last'.found) =>
        /\ h' = h
        /\ tables' = tables
        /\ entries' = entries]_vars

-----------------------------------------------------------------------------
(* C6: the bucket count of every table, the caller's and the one a resize  *)
(* built, is a power of two and at least MIN_BUCKET_COUNT.                 *)

RECURSIVE IsPowerOfTwo(_)
IsPowerOfTwo(n) ==
    IF n <= 1 THEN n = 1 ELSE n % 2 = 0 /\ IsPowerOfTwo(n \div 2)

C6_Sized(n) == IsPowerOfTwo(n) /\ n >= MIN_BUCKET_COUNT

C6_BucketCountPowerOfTwo ==
    /\ \A t \in TableIds : tables[t].live => C6_Sized(tables[t].bucket_count)
    /\ last.new_size # 0 => C6_Sized(last.new_size)
    /\ last.built.bucket_count # 0 => C6_Sized(last.built.bucket_count)

\* The table is empty again after it had grown: the remove that emptied it
\* carried out the shrink that earlier removes had deferred.
C6_Witness ==
    /\ Idle /\ last.op = "remove" /\ last.resize = "done"
    /\ tables[h].bucket_count = MIN_BUCKET_COUNT
    /\ hash_iterate(Mem, h) = <<>>

-----------------------------------------------------------------------------
(* C7: when a call returns, the caller's handle is the one live table, the *)
(* live entries are exactly the entries of its chains, each once, and      *)
(* nothing was freed twice; a successful resize leaves the handle on       *)
(* another table and the old table freed.                                  *)

C7_Chained(order) ==
    /\ LiveEntryIds(Mem) = {order[j] : j \in 1..Len(order)}
    /\ Cardinality(LiveEntryIds(Mem)) = Len(order)

C7_OneLiveTable ==
    /\ ~double_free
    /\ IF h = NULL THEN LiveTableIds(Mem) = {} /\ LiveEntryIds(Mem) = {}
       ELSE LiveTableIds(Mem) = {h} /\ C7_Chained(hash_iterate(Mem, h))
    /\ last.resize = "done" => (h # last.self /\ ~tables[last.self].live)

\* A hash_remove whose shrink succeeded: the old table is gone.
C7_Witness ==
    /\ Idle /\ last.op = "remove" /\ last.resize = "done" /\ last.found
    /\ hash_iterate(Mem, h) # <<>>

-----------------------------------------------------------------------------
(* C8: a hash_set whose grow succeeds leaves the caller's handle on a      *)
(* table of exactly twice the bucket count that holds exactly the pairs of *)
(* the old table and the pair just set.                                    *)

C8_GrowKeepsPairs ==
    [][(last'.op = "set" /\ last'.resize = "done") =>
        /\ tables'[h'].bucket_count = 2 * tables[h].bucket_count
        /\ \A k \in Keys :
             Lookup(k)' = IF k = last'.key
                          THEN [ret |-> 1, value_out |-> amap'[k]]
                          ELSE Lookup(k)
        /\ Len(hash_iterate(Mem, h))' =
             Len(hash_iterate(Mem, h)) + (IF last'.found THEN 0 ELSE 1)]_vars

\* A hash_set of a new key that grew the table.
C8_Witness ==
    /\ Idle /\ last.op = "set" /\ ~last.found /\ last.resize = "done"
    /\ tables[h].bucket_count = 2 * MIN_BUCKET_COUNT

-----------------------------------------------------------------------------
(* C9: a hash_remove whose shrink succeeds leaves the caller's handle on a *)
(* table of exactly half the bucket count that holds exactly the pairs of  *)
(* the old table without the removed key.                                  *)

C9_ShrinkKeepsPairs ==
    [][(last'.op = "remove" /\ last'.resize = "done") =>
        /\ 2 * tables'[h'].bucket_count = tables[h].bucket_count
        /\ \A k \in Keys :
             Lookup(k)' = IF k = last'.key
                          THEN [ret |-> 0, value_out |-> Absent]
                          ELSE Lookup(k)
        /\ Len(hash_iterate(Mem, h))' =
             Len(hash_iterate(Mem, h)) - (IF last'.found THEN 1 ELSE 0)]_vars

\* A hash_remove of a present key shrank the table and keys remain.
C9_Witness ==
    /\ Idle /\ last.op = "remove" /\ last.found /\ last.resize = "done"
    /\ tables[h].bucket_count = MIN_BUCKET_COUNT
    /\ \E k \in Keys : Lookup(k).ret = 1

-----------------------------------------------------------------------------
(* C10: hash_iterate calls the visitor exactly once for each stored pair   *)
(* and for no other, hands it the caller's context every time, and leaves  *)
(* the table as it was.                                                    *)

C10_CallsFor(k) == {j \in 1..Len(last.calls) : last.calls[j].key = k}

C10_IterateVisitsEachOnce ==
    [][last'.op = "iterate" =>
        /\ UNCHANGED <<tables, entries, double_free, h>>
        /\ \A j \in 1..Len(last'.calls) :
             /\ last'.calls[j].context = last'.context
             /\ last'.calls[j].key \in Keys
        /\ \A k \in Keys :
             /\ Cardinality(C10_CallsFor(k)') = Lookup(k).ret
             /\ \A j \in C10_CallsFor(k)' :
                  last'.calls[j].value = Lookup(k).value_out]_vars

\* An iteration over a table some chain of which holds several entries.
C10_Witness ==
    /\ Idle /\ last.op = "iterate" /\ Len(last.calls) >= 3
    /\ \E i \in DOMAIN tables[h].buckets : Len(tables[h].buckets[i]) >= 2

-----------------------------------------------------------------------------
(* C11: a hash_set aborts the process exactly when the key is not present  *)
(* and the allocation of the new entry (the struct or its key copy)        *)
(* fails; at the abort the heap and the caller's handle are as before the  *)
(* call; a hash_set of a present key never aborts whatever the allocator   *)
(* would answer; after the abort no call is made.                          *)

C11_AbortsOnlyOnFailedInsert ==
    [][/\ ~aborted
       /\ last'.op = "set" =>
            /\ aborted' <=> (~last'.found /\ last'.alloc # "ok")
            /\ aborted' =>
                 UNCHANGED <<tables, entries, double_free, h, amap>>]_vars

\* The key copy of a new key could not be allocated, in a table that had
\* grown.
C11_Witness ==
    /\ aborted /\ last.op = "set" /\ ~last.found /\ last.alloc = "no_key"
    /\ tables[h].bucket_count = 2 * MIN_BUCKET_COUNT

-----------------------------------------------------------------------------
(* C12: a hash_get call, for a present or an absent key, with or without   *)
(* an output slot, also when the load factor is outside the thresholds     *)
(* after a deferred resize, leaves the handle, the tables and the entries  *)
(* as they were, returns 1 exactly when the key is stored, and writes the  *)
(* slot, with the stored value, only when the key is found and a slot is   *)
(* given.                                                                  *)

C12_Stored(k) == amap[k] # Absent

C12_GetHasNoSideEffect ==
    [][last'.op = "get" =>
        /\ UNCHANGED <<tables, entries, double_free, h, aborted, amap>>
        /\ last'.got[1] = IF C12_Stored(last'.key) THEN 1 ELSE 0
        /\ last'.got[3] =
             IF C12_Stored(last'.key) /\ last'.got[2] # NoSlot
             THEN amap[last'.key] ELSE last'.got[2]]_vars

\* A lookup with a slot of a stored key while a grow is still owed.
C12_Witness ==
    /\ Idle /\ last.op = "get" /\ must_grow(tables[h])
    /\ last.got = <<1, Absent, amap[last.key]>>

-----------------------------------------------------------------------------
(* C13: hash_new does not abort; it either returns NULL and allocates      *)
(* nothing, or returns a live table of MIN_BUCKET_COUNT buckets with load  *)
(* factor zero and every chain empty, on which hash_get finds no key.      *)

C13_Fresh ==
    [live |-> TRUE, load_factor |-> 0, bucket_count |-> MIN_BUCKET_COUNT,
     buckets |-> [i \in 0..(MIN_BUCKET_COUNT - 1) |-> <<>>]]

C13_NewTableIsEmpty ==
    last.op = "new" =>
        /\ ~aborted
        /\ IF h = NULL
           THEN LiveTableIds(Mem) = {} /\ LiveEntryIds(Mem) = {}
           ELSE /\ tables[h] = C13_Fresh
                /\ LiveTableIds(Mem) = {h} /\ LiveEntryIds(Mem) = {}
                /\ \A k \in Keys : Lookup(k).ret = 0

\* hash_new returned a table.
C13_Witness ==
    /\ last.op = "new" /\ h # NULL /\ tables[h].live
    /\ \A k \in Keys : Lookup(k) = [ret |-> 0, value_out |-> Absent]

-----------------------------------------------------------------------------
(* C14: in runs where no allocation fails, hash_set doubles the bucket     *)
(* count exactly when it inserted a new key and the entry count then       *)
(* exceeds 1.5 times the bucket count, hash_remove halves it exactly when  *)
(* it removed a present key, the entry count is then below 0.375 times the *)
(* bucket count and the bucket count is above MIN_BUCKET_COUNT, and        *)
(* otherwise the bucket count stays.                                       *)

C14_Count == Cardinality({k \in DOMAIN amap : amap[k] # Absent})

C14_AfterSet(found, n, bucket_count) ==
    IF ~found /\ 2 * n > 3 * bucket_count
    THEN 2 * bucket_count ELSE bucket_count

C14_AfterRemove(found, n, bucket_count) ==
    IF found /\ 8 * n < 3 * bucket_count /\ bucket_count > MIN_BUCKET_COUNT
    THEN bucket_count \div 2 ELSE bucket_count

C14_BucketCountFollowsEntryCount ==
    [][/\ last'.op = "set" =>
            tables'[h'].bucket_count =
                C14_AfterSet(last'.found, C14_Count', tables[h].bucket_count)
       /\ last'.op = "remove" =>
            tables'[h'].bucket_count =
                C14_AfterRemove(last'.found, C14_Count',
                                tables[h].bucket_count)]_vars

\* The 97th key took the table from 64 to 128 buckets.
C14_Witness ==
    /\ Idle /\ last.op = "set" /\ ~last.found /\ last.resize = "done"
    /\ C14_Count = 97
    /\ tables[h].bucket_count = 4 * MIN_BUCKET_COUNT

-----------------------------------------------------------------------------
(* C15: the table a resize builds has exactly the bucket count asked for,  *)
(* and one hash_set or hash_remove call changes the bucket count by at     *)
(* most one factor of two, also when the rebuilt table is still above the  *)
(* grow threshold or still below the shrink threshold.                     *)

C15_NoNestedResize ==
    [][/\ last'.built.bucket_count # 0 =>
            last'.built.bucket_count = last'.new_size
       /\ last'.op = "set" =>
            tables'[h'].bucket_count \in
                {tables[h].bucket_count, 2 * tables[h].bucket_count}
       /\ last'.op = "remove" =>
            2 * tables'[h'].bucket_count \in
                {2 * tables[h].bucket_count, tables[h].bucket_count}]_vars

\* A grow that earlier calls had deferred is carried out at last, and the
\* table it built is itself above the grow threshold.
C15_Witness ==
    /\ Idle /\ last.op = "set" /\ last.resize = "done"
    /\ tables[h].load_factor > GROW_THRESHOLD

-----------------------------------------------------------------------------
(* C18: in runs where no allocation fails the table is inside the band     *)
(* after every call: the load factor is at most the grow threshold, and it *)
(* is at least the shrink threshold or the bucket count is                 *)
(* MIN_BUCKET_COUNT; so the remove that follows a grow does not shrink and *)
(* the set that follows a shrink does not grow.                            *)

C18_InBand ==
    h # NULL =>
        /\ tables[h].load_factor <= GROW_THRESHOLD
        /\ \/ tables[h].load_factor >= SHRINK_THRESHOLD
           \/ tables[h].bucket_count = MIN_BUCKET_COUNT

C18_StaysInBand ==
    [][/\ C18_InBand'
       /\ (last.op = "set" /\ last.resize = "done" /\ last'.op = "remove")
            => last'.resize = "none"
       /\ (last.op = "remove" /\ last.resize = "done" /\ last'.op = "set")
            => last'.resize = "none"]_vars

\* A present key is removed right after the set that grew the table.
C18_Witness ==
    /\ Idle /\ last.op = "remove" /\ last.found /\ last.resize = "none"
    /\ tables[h].bucket_count = 2 * MIN_BUCKET_COUNT
    /\ C14_Count = 48

-----------------------------------------------------------------------------
(* C16: a deferred resize is taken up again: every hash_set made while the *)
(* load factor is above the grow threshold, unless it aborts because the   *)
(* entry of a new key cannot be allocated, attempts the grow, and doubles  *)
(* the bucket count when its allocations succeed; every hash_remove made   *)
(* while the load factor is below the shrink threshold and the bucket      *)
(* count above MIN_BUCKET_COUNT attempts the shrink, and halves the bucket *)
(* count when its allocations succeed.                                     *)

C16_GrowOwed == tables[h].load_factor > GROW_THRESHOLD

C16_ShrinkOwed ==
    /\ tables[h].load_factor < SHRINK_THRESHOLD
    /\ tables[h].bucket_count > MIN_BUCKET_COUNT

-----------------------------------------------------------------------------
(* C17: the load factor of the caller's table is the number of entries on  *)
(* its chains divided by its bucket count, in exact arithmetic.            *)

C17_LoadFactorIsRatio ==
    h # NULL =>
        tables[h].load_factor * tables[h].bucket_count
            = LoadFactorScale * Len(hash_iterate(Mem, h))

\* A present key was removed from a table that had grown and kept entries.
C17_Witness ==
    /\ Idle /\ last.op = "remove" /\ last.found
    /\ tables[h].bucket_count = 2 * MIN_BUCKET_COUNT
    /\ tables[h].load_factor > 0
    /\ tables[h].load_factor * tables[h].bucket_count
         = LoadFactorScale * Len(hash_iterate(Mem, h))

-----------------------------------------------------------------------------
(* C19: every entry of the caller's table is on the chain whose index is   *)
(* the hash of its key modulo the table's bucket count.                    *)

C19_InOwnChain(t) ==
    \A i \in DOMAIN t.buckets :
        \A j \in 1..Len(t.buckets[i]) :
            hash(entries[t.buckets[i][j]].key) % t.bucket_count = i

C19_EntriesInOwnChain == h # NULL => C19_InOwnChain(tables[h])

\* A grown table with an entry in its upper half.
C19_Witness ==
    /\ Idle /\ last.resize = "done"
    /\ tables[h].bucket_count = 2 * MIN_BUCKET_COUNT
    /\ \E i \in MIN_BUCKET_COUNT..(2 * MIN_BUCKET_COUNT - 1) :
         /\ tables[h].buckets[i] # <<>>
         /\ hash(entries[tables[h].buckets[i][1]].key)
              % tables[h].bucket_count = i

====
